---- MODULE Spec2Model ----
(***************************************************************************)
(* FinSight browser extension: the article-text extractor                  *)
(* (extractArticleText, popup variant and content-script variant) and the  *)
(* popup's analyzeCurrentPage flow.                                        *)
(*                                                                         *)
(* A string is a sequence of one-character strings; a document is the      *)
(* pre-order list of its elements, each with its depth in the tree.        *)
(***************************************************************************)
EXTENDS Integers, Sequences, FiniteSets, TLC

(* ---------------------------------------------------------------- bounds *)
MaxNodes == 3
MaxDepth == 2

(* ------------------------------------------------------------- constants *)
popupNoiseMin == 50
popupAcceptMin == 100
popupFallbackMax == 20
contentNoiseMin == 30
contentAcceptMin == 200
contentFallbackMax == 30

Variants == {"popup", "content"}

popupSelectors ==
    << "article", "[role=\"article\"]", ".article-body", ".article-content",
       ".story-body", ".post-content", "main", ".content" >>

contentSelectors ==
    << "article", "[role=\"article\"]", ".article-body", ".article-content",
       ".story-body", ".post-content", ".entry-content", "main article",
       ".article", "[itemprop=\"articleBody\"]" >>

Selectors(v) == IF v = "popup" THEN popupSelectors ELSE contentSelectors
NoiseMin(v) == IF v = "popup" THEN popupNoiseMin ELSE contentNoiseMin
AcceptMin(v) == IF v = "popup" THEN popupAcceptMin ELSE contentAcceptMin
FallbackMax(v) == IF v = "popup" THEN popupFallbackMax ELSE contentFallbackMax

(* --------------------------------------------------------------- strings *)
Rep(c, n) == [i \in 1..n |-> c]

\* JavaScript's \s and String.prototype.trim agree on what whitespace is.
IsWs(c) == c \in {" ", "\t", "\n"}
IsNl(c) == c = "\n"

RECURSIVE TrimStart(_)
TrimStart(s) ==
    IF s = <<>> \/ ~IsWs(Head(s)) THEN s ELSE TrimStart(Tail(s))

RECURSIVE TrimEnd(_)
TrimEnd(s) ==
    IF s = <<>> \/ ~IsWs(s[Len(s)]) THEN s ELSE TrimEnd(SubSeq(s, 1, Len(s) - 1))

\* Mutant of Trim: the trim is forgotten.
TrimForgotten(s) == s

\* String.prototype.trim
Trim(s) == TrimEnd(TrimStart(s))

\* text.replace(/\s+/g, ' '): every maximal run of whitespace becomes one space.
ReplaceWsRuns(s) ==
    LET marked == [i \in 1..Len(s) |->
                     IF IsWs(s[i])
                     THEN (IF i > 1 /\ IsWs(s[i - 1]) THEN "" ELSE " ")
                     ELSE s[i]]
    IN  SelectSeq(marked, LAMBDA c : c # "")

\* text.replace(/\n+/g, ' '): every maximal run of newlines becomes one space.
ReplaceNlRuns(s) ==
    LET marked == [i \in 1..Len(s) |->
                     IF IsNl(s[i])
                     THEN (IF i > 1 /\ IsNl(s[i - 1]) THEN "" ELSE " ")
                     ELSE s[i]]
    IN  SelectSeq(marked, LAMBDA c : c # "")

\* Array.prototype.join(' ')
RECURSIVE JoinSpace(_)
JoinSpace(fs) ==
    IF fs = <<>> THEN <<>>
    ELSE IF Len(fs) = 1 THEN fs[1]
    ELSE fs[1] \o <<" ">> \o JoinSpace(Tail(fs))

\* Array.prototype.slice(0, n)
Slice0(fs, n) == SubSeq(fs, 1, IF Len(fs) < n THEN Len(fs) ELSE n)

(* -------------------------------------------------------------- document *)
\* An element: its tag, the attribute selectors it satisfies, its depth in
\* the tree and, for a <p>, its textContent.
IsP(d, i) == d[i].tag = "p"

\* j is a descendant of e: every element from e+1 to j lies deeper than e.
IsDescendant(d, e, j) ==
    j > e /\ \A k \in (e + 1)..j : d[k].depth > d[e].depth

Matches(d, i, sel) ==
    CASE sel \in {"article", "main"} -> d[i].tag = sel
      [] sel = "main article" ->
            /\ d[i].tag = "article"
            /\ \E a \in 1..(i - 1) : d[a].tag = "main" /\ IsDescendant(d, a, i)
      [] OTHER -> sel \in d[i].attrs

\* document.querySelector(sel): the first match in document order, 0 for null.
QuerySelector(d, sel) ==
    LET hits == {i \in 1..Len(d) : Matches(d, i, sel)}
    IN  IF hits = {} THEN 0 ELSE CHOOSE i \in hits : \A j \in hits : i <= j

\* element.querySelectorAll('p'): the <p> descendants of e, in document order.
ParagraphsOf(d, e) ==
    SelectSeq([i \in 1..Len(d) |-> i], LAMBDA j : IsP(d, j) /\ IsDescendant(d, e, j))

\* document.querySelectorAll('p')
AllParagraphs(d) == SelectSeq([i \in 1..Len(d) |-> i], LAMBDA j : IsP(d, j))

\* .map(p => p.textContent.trim())
MapTrim(d, ps) == [k \in 1..Len(ps) |-> Trim(d[ps[k]].text)]

\* Mutant of FilterNoise: only empty fragments are dropped.
FilterNoiseEmptyOnly(v, ts) == SelectSeq(ts, LAMBDA t : Len(t) > 0)

\* .filter(t => t.length > 50)   (30 in the content script)
FilterNoise(v, ts) == SelectSeq(ts, LAMBDA t : Len(t) > NoiseMin(v))

\* The fragments a container contributes: map, then filter.
ContainerFragments(v, d, e) == FilterNoise(v, MapTrim(d, ParagraphsOf(d, e)))

\* The fragments of the whole-document fallback: map, filter, slice.
FallbackFragments(v, d) ==
    Slice0(FilterNoise(v, MapTrim(d, AllParagraphs(d))), FallbackMax(v))

\* Mutant of Accepts: any non-empty text ends the loop.
AcceptsAnyText(v, t) == Len(t) > 0

\* if (text.length > 100) break;
Accepts(v, t) == Len(t) > AcceptMin(v)

\* if (!text || text.length < 100)
NeedsFallback(v, t) == t = <<>> \/ Len(t) < AcceptMin(v)

\* The popup returns text.trim(); the content script first replaces whitespace
\* runs, then newline runs, then trims.
Finish(v, t) ==
    IF v = "popup" THEN Trim(t) ELSE Trim(ReplaceNlRuns(ReplaceWsRuns(t)))

\* extractArticleText as a function of the document: the loop, the fallback,
\* the clean-up.
Found(d, sel) ==
    QuerySelector(d, sel) # 0 /\ Len(ParagraphsOf(d, QuerySelector(d, sel))) > 0

CandidateFragments(v, d, sel) == ContainerFragments(v, d, QuerySelector(d, sel))

RECURSIVE LoopFrom(_, _, _, _)
LoopFrom(v, d, i, t) ==
    IF i > Len(Selectors(v)) THEN t
    ELSE LET sel == Selectors(v)[i]
             nt == IF Found(d, sel) THEN JoinSpace(CandidateFragments(v, d, sel)) ELSE t
         IN  IF Found(d, sel) /\ Accepts(v, nt) THEN nt ELSE LoopFrom(v, d, i + 1, nt)

ExtractArticleText(v, d) ==
    LET t == LoopFrom(v, d, 1, <<>>)
    IN  Finish(v, IF NeedsFallback(v, t) THEN JoinSpace(FallbackFragments(v, d)) ELSE t)

(* ------------------------------------------------------------ input sets *)
\* Paragraph texts around the variant's two thresholds.
TextShort(v) == Rep("s", NoiseMin(v) - 1)
TextAtNoise(v) == <<" ">> \o Rep("n", NoiseMin(v)) \o <<"\n">>
TextMessy(v) ==
    <<"\t", " ">> \o Rep("m", NoiseMin(v) - 2) \o <<" ", " ">> \o <<"m", "\n">>
TextBlank(v) == Rep(" ", NoiseMin(v)) \o <<"\t">>
TextAtAccept(v) == Rep("c", AcceptMin(v))
TextLong(v) == Rep("d", AcceptMin(v) - 1) \o <<"\t", "\n">> \o <<"d">>

Texts(v) ==
    {TextShort(v), TextAtNoise(v), TextMessy(v), TextBlank(v), TextAtAccept(v), TextLong(v)}

Paragraph(t, dp) == [tag |-> "p", attrs |-> {}, depth |-> dp, text |-> t]
Container(tg, as, dp) == [tag |-> tg, attrs |-> as, depth |-> dp, text |-> <<>>]

ContainerKinds ==
    { <<"article", {}>>, <<"main", {}>>, <<"div", {".story-body"}>>,
      <<"div", {".content", ".article"}>> }

\* A page of more paragraphs than the fallback keeps, each one qualifying and
\* different from its neighbours.
LongPage(v) ==
    [i \in 1..(FallbackMax(v) + 1) |->
        Paragraph(Rep(IF i % 2 = 0 THEN "e" ELSE "o", NoiseMin(v) + 1 + (i % 3)), 0)]

VARIABLES
    variant,   \* which extractArticleText runs
    doc,       \* the document
    pc,        \* where the call is
    idx,       \* position of the for-of loop in selectors
    text,      \* the local `text`
    frags,     \* the array `text` was joined from
    queried,   \* the selectors handed to document.querySelector so far
    result,    \* the value returned by the last call
    prev       \* the value returned by the call before it

exVars == <<variant, doc, pc, idx, text, frags, queried, result, prev>>

VARIABLES
    display,    \* style.display of the popup's four sections
    errorText,  \* errorText.textContent
    rendered,   \* what summaryContent and companiesSection show
    storage,    \* chrome.storage.local: lastAnalysis, lastUrl
    requests,   \* the texts POSTed to the analysis API so far
    runs,       \* the runs of analyzeCurrentPage started so far, in order
    startup,    \* where the DOMContentLoaded handler's callbacks are
    cached      \* the storage.get result the startup callbacks hold

puVars == <<display, errorText, rendered, storage, requests, runs, startup, cached>>

vars == <<exVars, puVars>>

NoResult == <<"(none)">>

(* ------------------------------------------------------------------ popup *)
MaxClicks == 2
popupCallerMin == 100

Sections == {"instructions", "loading", "error", "results"}

None == "(none)"
NoTab == [id |-> 0, url |-> None]
Tabs == {[id |-> 1, url |-> "u1"], [id |-> 2, url |-> "u2"]}

NoAnalysis == [summary |-> None, companies |-> <<>>]

\* Analyses the API may answer with: a company record may lack stock_data.
Company(n, complete) == [name |-> n, hasStockData |-> complete]
Analyses ==
    { [summary |-> "s", companies |-> <<Company("X", TRUE)>>],
      [summary |-> "", companies |-> <<Company("Y", FALSE)>>] }

\* Pages the active tab may show: no paragraph, and one paragraph whose
\* extraction is one short of, exactly, and above the caller's minimum.
PopupPages ==
    { <<>>,
      <<Paragraph(Rep("x", popupCallerMin - 1), 0)>>,
      <<Paragraph(Rep("y", popupCallerMin), 0)>>,
      <<Container("article", {}, 0), Paragraph(TextLong("popup"), 1)>> }

MsgNoTab == "No active tab found"
MsgNoExtract == "Could not extract text from page"
MsgTooShort == "Article text too short. Please navigate to a full article page."
MsgNetwork == "Failed to fetch"
MsgApiBody == "No text provided"
MsgApiStatus == "API Error: 500"
MsgScript == "Cannot access contents of the page"
MsgJson == "Unexpected token < in JSON at position 0"
MsgRender == "Cannot read properties of undefined (reading 'change_pct')"

\* Mutant of HideAllSections: resultsSection is forgotten.
HideAllButResults(d) == [s \in DOMAIN d |-> IF s = "results" THEN d[s] ELSE "none"]

HideAllSections(d) == [s \in DOMAIN d |-> "none"]
ShowLoading(d) == [d EXCEPT !["loading"] = "block"]

\* Mutant of ShowError: the other sections are not hidden first.
ShowErrorWithoutHiding(d) == [d EXCEPT !["error"] = "block"]

ShowError(d) == [HideAllSections(d) EXCEPT !["error"] = "block"]

\* createCompanyCard reads company.stock_data.change_pct.
CardThrows(company) == ~company.hasStockData
RenderThrows(data) == \E k \in 1..Len(data.companies) : CardThrows(data.companies[k])

\* displayResults: the sections, then the summary, then the cards; a card
\* that throws leaves companiesSection as it was.
DisplayResultsSections(d) == [HideAllSections(d) EXCEPT !["results"] = "block"]
DisplayResultsContent(old, data) ==
    [ summary |-> IF data.summary = "" THEN "No summary available" ELSE data.summary,
      companies |->
          IF RenderThrows(data) THEN old.companies
          ELSE IF Len(data.companies) > 0
               THEN [k \in 1..Len(data.companies) |-> data.companies[k].name]
               ELSE <<"No companies found in this article.">> ]

\* Mutant of TooShort: the caller's length check is dropped.
TooShortNever(t) == FALSE

\* if (!articleText || articleText.length < 100)
TooShort(t) == t = <<>> \/ Len(t) < popupCallerMin

\* if (!results || !results[0] || !results[0].result): the function injected
\* always returns a string, so the test comes down to the empty string.
NoExtraction(res) == res = <<>>

\* A run of analyzeCurrentPage: where it is suspended, its local `tab`, the
\* status of the response it holds, the message it failed with, and whether
\* it has called chrome.storage.local.set.  A run that is over has no locals.
NewRun == [pc |-> "tabs", tab |-> NoTab, status |-> 0, error |-> "", stored |-> FALSE]
Over(msg, st) == [pc |-> "done", tab |-> NoTab, status |-> 0, error |-> msg, stored |-> st]

ExQuiet ==
    /\ variant = "popup"
    /\ doc = <<>>
    /\ pc = "idle"
    /\ idx = 0
    /\ text = <<>>
    /\ frags = <<>>
    /\ queried = <<>>
    /\ result = NoResult
    /\ prev = NoResult

PuQuiet ==
    /\ display = [s \in Sections |-> ""]
    /\ errorText = ""
    /\ rendered = [summary |-> "", companies |-> <<>>]
    /\ storage = [lastAnalysis |-> NoAnalysis, lastUrl |-> None]
    /\ requests = {}
    /\ runs = <<>>
    /\ startup = "boot"
    /\ cached = [lastAnalysis |-> NoAnalysis, lastUrl |-> None]

Init ==
    /\ PuQuiet
    /\ variant \in Variants
    /\ doc \in {<<>>, LongPage(variant)}
    /\ pc = "idle"
    /\ idx = 0
    /\ text = <<>>
    /\ frags = <<>>
    /\ queried = <<>>
    /\ result = NoResult
    /\ prev = NoResult

\* The page grows by one element, at a depth the tree allows.
CanAppend(d, dp) ==
    /\ dp <= MaxDepth
    /\ IF d = <<>> THEN dp = 0
       ELSE LET last == d[Len(d)]
            IN  dp <= (IF last.tag = "p" THEN last.depth ELSE last.depth + 1)

PageAppend ==
    /\ pc = "idle"
    /\ Len(doc) < MaxNodes
    /\ \E dp \in 0..MaxDepth :
         /\ CanAppend(doc, dp)
         /\ \/ \E t \in Texts(variant) : doc' = Append(doc, Paragraph(t, dp))
            \/ \E k \in ContainerKinds : doc' = Append(doc, Container(k[1], k[2], dp))
    /\ UNCHANGED <<variant, pc, idx, text, frags, queried, result, prev>>
    /\ UNCHANGED puVars

\* Mutant of Call: the loop position survives from the call before.
CallKeepingPosition ==
    /\ pc \in {"idle", "done"}
    /\ pc' = "loop"
    /\ idx' = IF pc = "done" THEN idx ELSE 1
    /\ text' = <<>>
    /\ frags' = <<>>
    /\ queried' = <<>>
    /\ prev' = result
    /\ UNCHANGED <<variant, doc, result>>
    /\ UNCHANGED puVars

\* extractArticleText() is entered: let text = ''.
Call ==
    /\ pc \in {"idle", "done"}
    /\ pc' = "loop"
    /\ idx' = 1
    /\ text' = <<>>
    /\ frags' = <<>>
    /\ queried' = <<>>
    /\ prev' = result
    /\ UNCHANGED <<variant, doc, result>>
    /\ UNCHANGED puVars

\* One iteration of `for (const selector of selectors)`.
TrySelector ==
    /\ pc = "loop"
    /\ LET sel == Selectors(variant)[idx]
           found == Found(doc, sel)
           fs == CandidateFragments(variant, doc, sel)
           t == JoinSpace(fs)
       IN  /\ queried' = Append(queried, sel)
           /\ text' = IF found THEN t ELSE text
           /\ frags' = IF found THEN fs ELSE frags
           /\ IF (found /\ Accepts(variant, t)) \/ idx = Len(Selectors(variant))
              THEN pc' = "fallback" /\ idx' = idx
              ELSE pc' = "loop" /\ idx' = idx + 1
    /\ UNCHANGED <<variant, doc, result, prev>>
    /\ UNCHANGED puVars

\* Fallback: get all paragraphs on the page.
Fallback ==
    /\ pc = "fallback"
    /\ IF NeedsFallback(variant, text)
       THEN /\ frags' = FallbackFragments(variant, doc)
            /\ text' = JoinSpace(frags')
       ELSE UNCHANGED <<text, frags>>
    /\ pc' = "cleanup"
    /\ UNCHANGED <<variant, doc, idx, queried, result, prev>>
    /\ UNCHANGED puVars

\* Clean up and return.
Return ==
    /\ pc = "cleanup"
    /\ result' = Finish(variant, text)
    /\ pc' = "done"
    /\ UNCHANGED <<variant, doc, idx, text, frags, queried, prev>>
    /\ UNCHANGED puVars

Next == PageAppend \/ Call \/ TrySelector \/ Fallback \/ Return

Spec == Init /\ [][Next]_vars

(* ------------------------------------------------- the popup's behaviour *)
\* A storage left by an earlier opening of the popup, or none.
PopupInit ==
    /\ ExQuiet
    /\ display = [s \in Sections |-> ""]
    /\ errorText = ""
    /\ rendered = [summary |-> "", companies |-> <<>>]
    /\ storage \in {[lastAnalysis |-> NoAnalysis, lastUrl |-> None]}
                     \cup {[lastAnalysis |-> a, lastUrl |-> "u1"] : a \in Analyses}
    /\ requests = {}
    /\ runs = <<>>
    /\ startup = "boot"
    /\ cached = [lastAnalysis |-> NoAnalysis, lastUrl |-> None]

\* DOMContentLoaded: storage.get is issued and the buttons get their listeners.
DomContentLoaded ==
    /\ startup = "boot"
    /\ startup' = "get"
    /\ UNCHANGED <<display, errorText, rendered, storage, requests, runs, cached>>
    /\ UNCHANGED exVars

\* The storage.get callback.
StorageGetCallback ==
    /\ startup = "get"
    /\ IF storage.lastAnalysis # NoAnalysis /\ storage.lastUrl # None
       THEN startup' = "query" /\ cached' = storage
       ELSE startup' = "done" /\ UNCHANGED cached
    /\ UNCHANGED <<display, errorText, rendered, storage, requests, runs>>
    /\ UNCHANGED exVars

\* The startup's tabs.query callback: displayResults of the cached analysis
\* when the active tab is still on the cached URL.
StartupTabsCallback ==
    /\ startup = "query"
    /\ startup' = "done"
    /\ \E t \in Tabs \cup {NoTab} :
         IF t # NoTab /\ t.url = cached.lastUrl
         THEN /\ display' = DisplayResultsSections(display)
              /\ rendered' = DisplayResultsContent(rendered, cached.lastAnalysis)
         ELSE UNCHANGED <<display, rendered>>
    /\ UNCHANGED <<errorText, storage, requests, runs, cached>>
    /\ UNCHANGED exVars

\* A click on the analyze or retry button: analyzeCurrentPage up to its first
\* await (hideAllSections, showLoading, chrome.tabs.query).
Click ==
    /\ startup # "boot"
    /\ Len(runs) < MaxClicks
    /\ display' = ShowLoading(HideAllSections(display))
    /\ runs' = Append(runs, NewRun)
    /\ UNCHANGED <<errorText, rendered, storage, requests, startup, cached>>
    /\ UNCHANGED exVars

\* catch (error) { showError(error.message) }: the run is over.
Fails(r, msg) ==
    /\ display' = ShowError(display)
    /\ errorText' = msg
    /\ runs' = [runs EXCEPT ![r] = Over(msg, FALSE)]

\* tabs.query resolves: no tab throws, otherwise executeScript is called.
TabsResolved(r) ==
    /\ runs[r].pc = "tabs"
    /\ \E t \in Tabs \cup {NoTab} :
         IF t = NoTab
         THEN Fails(r, MsgNoTab)
         ELSE /\ runs' = [runs EXCEPT ![r].pc = "script", ![r].tab = t]
              /\ UNCHANGED <<display, errorText>>
    /\ UNCHANGED <<rendered, storage, requests, startup, cached>>
    /\ UNCHANGED exVars

\* executeScript rejects: the page cannot be scripted.
ScriptRejected(r) ==
    /\ runs[r].pc = "script"
    /\ Fails(r, MsgScript)
    /\ UNCHANGED <<rendered, storage, requests, startup, cached>>
    /\ UNCHANGED exVars

\* executeScript resolves with what extractArticleText returned in the page:
\* the two checks, then analyzeWithAPI's fetch.
ScriptResolved(r) ==
    /\ runs[r].pc = "script"
    /\ \E page \in PopupPages :
         LET articleText == ExtractArticleText("popup", page)
         IN  IF NoExtraction(articleText)
             THEN Fails(r, MsgNoExtract) /\ UNCHANGED requests
             ELSE IF TooShort(articleText)
             THEN Fails(r, MsgTooShort) /\ UNCHANGED requests
             ELSE /\ requests' = requests \cup {articleText}
                  /\ runs' = [runs EXCEPT ![r].pc = "fetch"]
                  /\ UNCHANGED <<display, errorText>>
    /\ UNCHANGED <<rendered, storage, startup, cached>>
    /\ UNCHANGED exVars

\* fetch rejects: the network failed.
FetchRejected(r) ==
    /\ runs[r].pc = "fetch"
    /\ Fails(r, MsgNetwork)
    /\ UNCHANGED <<rendered, storage, requests, startup, cached>>
    /\ UNCHANGED exVars

\* fetch resolves with a response; response.json() is awaited either way.
FetchResolved(r) ==
    /\ runs[r].pc = "fetch"
    /\ \E st \in {200, 500} : runs' = [runs EXCEPT ![r].pc = "json", ![r].status = st]
    /\ UNCHANGED <<display, errorText, rendered, storage, requests, startup, cached>>
    /\ UNCHANGED exVars

\* A non-OK response: errorData.error || `API Error: ${response.status}`.
ErrorBodyResolved(r) ==
    /\ runs[r].pc = "json"
    /\ runs[r].status # 200
    /\ \E msg \in {MsgApiBody, MsgApiStatus} : Fails(r, msg)
    /\ UNCHANGED <<rendered, storage, requests, startup, cached>>
    /\ UNCHANGED exVars

\* An OK response whose body is not JSON: response.json() rejects.
BodyRejected(r) ==
    /\ runs[r].pc = "json"
    /\ runs[r].status = 200
    /\ Fails(r, MsgJson)
    /\ UNCHANGED <<rendered, storage, requests, startup, cached>>
    /\ UNCHANGED exVars

\* An OK response: the analysis is cached, then displayed; a card that throws
\* is caught like every other error.  Of the three keys storage.set writes,
\* lastAnalyzed (the wall-clock time) is never read and is left out.
BodyResolved(r) ==
    /\ runs[r].pc = "json"
    /\ runs[r].status = 200
    /\ \E analysis \in Analyses :
         /\ storage' = [lastAnalysis |-> analysis, lastUrl |-> runs[r].tab.url]
         /\ rendered' = DisplayResultsContent(rendered, analysis)
         /\ IF RenderThrows(analysis)
            THEN /\ display' = ShowError(DisplayResultsSections(display))
                 /\ errorText' = MsgRender
                 /\ runs' = [runs EXCEPT ![r] = Over(MsgRender, TRUE)]
            ELSE /\ display' = DisplayResultsSections(display)
                 /\ runs' = [runs EXCEPT ![r] = Over("", TRUE)]
                 /\ UNCHANGED errorText
    /\ UNCHANGED <<requests, startup, cached>>
    /\ UNCHANGED exVars

PopupNext ==
    \/ DomContentLoaded
    \/ StorageGetCallback
    \/ StartupTabsCallback
    \/ Click
    \/ \E r \in 1..Len(runs) : TabsResolved(r)
    \/ \E r \in 1..Len(runs) : ScriptRejected(r)
    \/ \E r \in 1..Len(runs) : ScriptResolved(r)
    \/ \E r \in 1..Len(runs) : FetchRejected(r)
    \/ \E r \in 1..Len(runs) : FetchResolved(r)
    \/ \E r \in 1..Len(runs) : ErrorBodyResolved(r)
    \/ \E r \in 1..Len(runs) : BodyRejected(r)
    \/ \E r \in 1..Len(runs) : BodyResolved(r)

SpecPopup == PopupInit /\ [][PopupNext]_vars

(* ------------------------------------------------- what the claims speak of *)
Done == pc = "done"

\* A string with no tab or newline, no two adjacent whitespace characters and
\* no whitespace at either end.
IsCollapsed(s) ==
    /\ \A i \in 1..Len(s) : s[i] \notin {"\t", "\n"}
    /\ \A i \in 1..(Len(s) - 1) : ~(IsWs(s[i]) /\ IsWs(s[i + 1]))
    /\ s # <<>> => ~IsWs(s[1]) /\ ~IsWs(s[Len(s)])

\* The normalisation the specification describes: whitespace runs collapsed to
\* one space, then trimmed.
Normalized(s) == Trim(ReplaceWsRuns(s))

\* The joined text clears (exceeds) the acceptance threshold.
ClearsAcceptance(v, t) == Len(t) > AcceptMin(v)

\* The trimmed paragraph texts longer than the noise threshold, in document
\* order, among the paragraph indices ps.
Qualifying(v, d, ps) ==
    SelectSeq([k \in 1..Len(ps) |-> Trim(d[ps[k]].text)],
              LAMBDA t : Len(t) > NoiseMin(v))

\* The joined text of the container a selector designates, <<>> if none.
CandidateText(v, d, sel) ==
    IF QuerySelector(d, sel) = 0 THEN <<>>
    ELSE JoinSpace(Qualifying(v, d, ParagraphsOf(d, QuerySelector(d, sel))))

NoCandidateAccepted(v, d) ==
    \A k \in 1..Len(Selectors(v)) : ~ClearsAcceptance(v, CandidateText(v, d, Selectors(v)[k]))

\* The whole-document fallback text: the leading qualifying paragraphs, joined.
WholeDocumentText(v, d) ==
    LET q == Qualifying(v, d, AllParagraphs(d))
    IN  JoinSpace(SubSeq(q, 1, IF Len(q) < FallbackMax(v) THEN Len(q) ELSE FallbackMax(v)))

\* The first selector, in priority order, whose element exists; 0 if none.
FirstExisting(v, d) ==
    LET ks == {k \in 1..Len(Selectors(v)) : QuerySelector(d, Selectors(v)[k]) # 0}
    IN  IF ks = {} THEN 0 ELSE CHOOSE k \in ks : \A j \in ks : k <= j

\* The model's step-by-step call returns what the function computes.
StepwiseAgrees == Done => result = ExtractArticleText(variant, doc)

(* ------------------------------------------------------------------ claims *)
\* C1: the string extractArticleText returns, in either variant, has no tab
\* or newline, no run of two whitespace characters and no whitespace at
\* either end.
C1_WhitespaceCollapsed == Done => IsCollapsed(result)

\* C2: when no candidate selector's joined text cleared the acceptance
\* threshold, the returned text is the whole-document fallback (compared up to
\* whitespace normalisation), never the text of a rejected container.
C2_FallbackWhenNoneAccepted ==
    (Done /\ NoCandidateAccepted(variant, doc))
        => Normalized(result) = Normalized(WholeDocumentText(variant, doc))

\* C4: when the first selector whose element exists holds qualifying
\* paragraphs whose joined text exceeds the acceptance threshold, the call
\* returns the normalized join of exactly those paragraphs and has queried no
\* selector after it.
C4_FirstExistingSelectorWins ==
    LET k == FirstExisting(variant, doc)
        t == CandidateText(variant, doc, Selectors(variant)[k])
    IN  (Done /\ k # 0 /\ ClearsAcceptance(variant, t))
            => /\ result = Normalized(t)
               /\ queried = SubSeq(Selectors(variant), 1, k)

\* C6: when no selector matches any element and the document has a paragraph,
\* the call returns the normalized single-space join of at most the fallback
\* bound of qualifying paragraphs, from the start, in document order.
C6_FallbackOfUnmatchedDocument ==
    (Done /\ FirstExisting(variant, doc) = 0 /\ AllParagraphs(doc) # <<>>)
        => result = Normalized(WholeDocumentText(variant, doc))

IsBlank(s) == \A i \in 1..Len(s) : IsWs(s[i])

\* The trimmed texts of the document's paragraphs.
ParagraphTexts(d) == {Trim(d[i].text) : i \in {j \in 1..Len(d) : IsP(d, j)}}

\* C5: a non-empty output is the (finished) single-space join of fragments,
\* each the trimmed text of a paragraph of the document and each at least as
\* long as the noise threshold; no fragment shorter than the threshold is
\* among them.
C5_OnlyQualifyingFragments ==
    (Done /\ result # <<>>)
        => /\ result = Finish(variant, JoinSpace(frags))
           /\ \A k \in 1..Len(frags) :
                 /\ frags[k] \in ParagraphTexts(doc)
                 /\ Len(frags[k]) >= NoiseMin(variant)
           /\ \A t \in ParagraphTexts(doc) :
                 Len(t) < NoiseMin(variant) => \A k \in 1..Len(frags) : frags[k] # t

\* C5's case: a non-empty output of a document that holds a non-empty
\* paragraph shorter than the noise threshold.
C5_Witness ==
    /\ Done
    /\ result # <<>>
    /\ \E t \in ParagraphTexts(doc) : 0 < Len(t) /\ Len(t) < NoiseMin(variant)

\* C8: a call is always at a position from which its next step is defined
\* (it has no exceptional exit: in the loop the position names a selector, and
\* a call that is over has returned a string), and for a document with no
\* paragraph or with no text but whitespace it returns the empty string.
C8_NeverRaisesEmptyForNoText ==
    /\ pc \in {"idle", "loop", "fallback", "cleanup", "done"}
    /\ pc = "loop" => idx \in 1..Len(Selectors(variant))
    /\ Done => result # NoResult
    /\ (Done /\ \A i \in 1..Len(doc) : IsBlank(doc[i].text)) => result = <<>>

\* C8's case: a container with paragraphs of whitespace only, and the call
\* has returned.
C8_Witness ==
    /\ Done
    /\ FirstExisting(variant, doc) # 0
    /\ AllParagraphs(doc) # <<>>
    /\ \A i \in 1..Len(doc) : IsBlank(doc[i].text)
    /\ result = <<>>

\* C9: the selectors queried so far are an initial stretch of the priority
\* list, none of those before the last one was accepted, and when the first
\* selector's container does not clear the acceptance threshold the second
\* selector is queried.
C9_MonotonicFallback ==
    /\ Len(queried) <= Len(Selectors(variant))
    /\ queried = SubSeq(Selectors(variant), 1, Len(queried))
    /\ \A k \in 1..(Len(queried) - 1) :
          ~ClearsAcceptance(variant, CandidateText(variant, doc, queried[k]))
    /\ (/\ pc \in {"fallback", "cleanup", "done"}
        /\ QuerySelector(doc, Selectors(variant)[1]) # 0
        /\ ~ClearsAcceptance(variant, CandidateText(variant, doc, Selectors(variant)[1])))
          => Len(queried) >= 2 /\ queried[2] = Selectors(variant)[2]

\* C9's case: the first selector's container has qualifying text below the
\* acceptance threshold and the loop went on.
C9_Witness ==
    /\ Done
    /\ QuerySelector(doc, Selectors(variant)[1]) # 0
    /\ CandidateText(variant, doc, Selectors(variant)[1]) # <<>>
    /\ Len(CandidateText(variant, doc, Selectors(variant)[1])) < AcceptMin(variant)
    /\ Len(queried) >= 2

\* C10: a call on the document the call before it saw returns the same
\* string, and no step of a call changes the document.
C10_Idempotent ==
    /\ [](Done /\ prev # NoResult => result = prev)
    /\ [][pc # "idle" => doc' = doc]_vars

\* C10's case: a second call has returned, on a document with a container
\* and a non-empty output.
C10_Witness ==
    /\ Done
    /\ prev # NoResult
    /\ result # <<>>
    /\ FirstExisting(variant, doc) # 0

\* C3 as stated: every text POSTed to the analysis API is longer than the
\* caller-side minimum of 100 characters.
C3_SentOnlyAboveMinimum == \A t \in requests : Len(t) > popupCallerMin

\* C3 as amended: every text POSTed to the analysis API has at least 100
\* characters; for a text shorter than 100 no request is sent.
C3_SentOnlyAtLeastMinimum == \A t \in requests : Len(t) >= popupCallerMin

\* C3's case: a text of exactly 100 characters was sent, and another run
\* ended on the too-short error without sending.
C3_Witness ==
    /\ \E t \in requests : Len(t) = popupCallerMin
    /\ \E r \in 1..Len(runs) : runs[r].error = MsgTooShort

\* The failures C7 names: no active tab, empty extraction, text too short, a
\* non-OK API response, a network failure.
ClaimedFailures ==
    {MsgNoTab, MsgNoExtract, MsgTooShort, MsgApiBody, MsgApiStatus, MsgNetwork}

OnlyErrorVisible(d) == d = [s \in Sections |-> IF s = "error" THEN "block" ELSE "none"]

\* C7: the step in which a run ends on one of the named failures leaves the
\* error section as the only one displayed, with the failure's message as its
\* text, and leaves storage as it was; that run has never written storage.
C7_FailedRunShowsErrorKeepsCache ==
    [][\A r \in 1..Len(runs) :
          (runs[r].pc # "done" /\ runs'[r].pc = "done" /\ runs'[r].error \in ClaimedFailures)
              => /\ OnlyErrorVisible(display')
                 /\ errorText' = runs'[r].error
                 /\ storage' = storage
                 /\ ~runs'[r].stored]_vars

\* C7's case: a run has ended on a non-OK API response while storage holds a
\* cached analysis, and the error section is displayed.
C7_Witness ==
    /\ \E r \in 1..Len(runs) : runs[r].pc = "done" /\ runs[r].error = MsgApiStatus
    /\ storage.lastAnalysis # NoAnalysis
    /\ display["error"] = "block"

\* The sections whose style.display the script has set to 'block'.
Displayed(d) == {s \in Sections : d[s] = "block"}

\* C11: after every callback step, under every interleaving of the startup
\* callbacks with the runs of analyzeCurrentPage, at most one of the four
\* sections is displayed: either no step has touched the sections yet, or
\* exactly one section is 'block' and the other three are 'none'.
C11_AtMostOneSectionDisplayed ==
    /\ Cardinality(Displayed(display)) <= 1
    /\ \/ display = [s \in Sections |-> ""]
       \/ \E s \in Sections :
            display = [x \in Sections |-> IF x = s THEN "block" ELSE "none"]

\* C11's case: the startup's displayResults of the cached analysis landed while
\* a run started by a click is still suspended, and the results section alone
\* is displayed.
C11_Witness ==
    /\ startup = "done"
    /\ \E r \in 1..Len(runs) : runs[r].pc \in {"tabs", "script", "fetch", "json"}
    /\ \A r \in 1..Len(runs) : ~runs[r].stored
    /\ Displayed(display) = {"results"}

====
